---- MODULE Spec2Model ----
(***************************************************************************)
(* Model of the portfolio application's data pipeline (src/src/App.tsx):  *)
(* the App component's state (repositories, user, loading), the effect    *)
(* that runs fetchGitHubData on mount, on every interval tick and on a    *)
(* visibilitychange event while the page is visible, the filter/sort of   *)
(* the repository response, the technology detection (repoLanguages) and  *)
(* the skill catalog (getSkillCategories).                                 *)
(***************************************************************************)
EXTENDS Integers, Sequences, FiniteSets, TLC

VARIABLES
    repositories,   \* useState<Repository[]>([])
    user,           \* useState<GitHubUser | null>(null)
    loading,        \* useState(true)
    mounted,        \* the effect has run and its cleanup has not
    mounts,         \* number of times the effect has run
    intervals,      \* ids of the intervals set by setInterval and not cleared
    listeners,      \* ids of the registered visibilitychange listeners
    writers,        \* which fetch cycle wrote the state that is shown
    reduceCall,     \* the Set that repos.reduce fills, and where the call is
    hidden,         \* document.hidden
    cycles,         \* the calls of fetchGitHubData, in the order they started
    requests,       \* HTTP requests issued by fetch() and not yet settled
    reposData,      \* the repository body most recently handed to the pipeline
    event,          \* the event handled by the last step
    view,           \* what the component under study returned from its last render
    renders         \* the renders so far: the repos prop and the detected set

vars == <<repositories, user, loading, mounted, mounts, intervals, listeners,
          hidden, cycles, requests, reposData, event, view, renders, writers,
          reduceCall>>

----------------------------------------------------------------------------
(* Bounds of the model.                                                    *)

MaxCycles == 3        \* calls of fetchGitHubData in one behaviour
MaxLen == 3           \* repositories in one input of the pipeline
MaxStars == 1         \* star counts 0..MaxStars in the pipeline inputs
MaxDate == 2          \* update dates Date(0)..Date(MaxDate) in the inputs
MaxRepos == 2         \* repositories in one input of the technology detector
MaxTopics == 3        \* topics of all repositories of one input of About together
MaxProjects == 9      \* repositories in one input of the Projects component
LiveCycles == 2       \* fetch cycles in one behaviour of SpecLive
MaxRenders == 3       \* renders of the About component in one behaviour

----------------------------------------------------------------------------
(* Dates.  updated_at is an ISO-8601 UTC timestamp; it is modelled by its  *)
(* calendar date <<year, month, day>> at midnight UTC.                     *)

\* Days between 1970-01-01 and the civil date y-m-d (proleptic Gregorian).
DaysFromCivil(y, m, d) ==
    LET yy  == IF m <= 2 THEN y - 1 ELSE y
        era == yy \div 400
        yoe == yy - era * 400
        mp  == IF m > 2 THEN m - 3 ELSE m + 9
        doy == (153 * mp + 2) \div 5 + d - 1
        doe == yoe * 365 + yoe \div 4 - yoe \div 100 + doy
    IN  era * 146097 + doe - 719468

\* new Date(updated_at).getTime(), in seconds instead of milliseconds (the
\* millisecond value of a current date exceeds the integers of TLC; the
\* comparator only uses the sign of a difference of two such values).
DateGetTime(date) == DaysFromCivil(date[1], date[2], date[3]) * 86400

\* The order of two timestamps as calendar dates, independent of DateGetTime.
DateLeq(d1, d2) ==
    \/ d1[1] < d2[1]
    \/ d1[1] = d2[1] /\ d1[2] < d2[2]
    \/ d1[1] = d2[1] /\ d1[2] = d2[2] /\ d1[3] <= d2[3]

----------------------------------------------------------------------------
(* Repository pipeline: reposData.filter(!archived).sort(comparator).      *)

NoLanguage == "null"    \* language: string | null

compareDropsTieBreak(a, b) == b.stargazers_count - a.stargazers_count

\* The comparator passed to sort: b.stars - a.stars || time(b) - time(a).
\* (x || y evaluates to y exactly when x is 0.)
compare(a, b) ==
    LET byStars == b.stargazers_count - a.stargazers_count
    IN  IF byStars # 0 THEN byStars
        ELSE DateGetTime(b.updated_at) - DateGetTime(a.updated_at)

FilterKeepsAll(s) == s

RECURSIVE FilterNotArchived(_)
\* reposData.filter((repo) => !repo.archived)
FilterNotArchived(s) ==
    IF s = <<>> THEN <<>>
    ELSE IF Head(s).archived THEN FilterNotArchived(Tail(s))
         ELSE <<Head(s)>> \o FilterNotArchived(Tail(s))

InsertBeforeEqual(s, x) ==
    LET later == {i \in 1..Len(s) : compare(s[i], x) >= 0}
        k == IF later = {} THEN Len(s) + 1
             ELSE CHOOSE i \in later : \A j \in later : i <= j
    IN  SubSeq(s, 1, k - 1) \o <<x>> \o SubSeq(s, k, Len(s))

\* Position at which x enters the sorted sequence s: after every element
\* that does not compare greater than x, so that equal elements keep their
\* input order (Array.prototype.sort is stable).
Insert(s, x) ==
    LET later == {i \in 1..Len(s) : compare(s[i], x) > 0}
        k == IF later = {} THEN Len(s) + 1
             ELSE CHOOSE i \in later : \A j \in later : i <= j
    IN  SubSeq(s, 1, k - 1) \o <<x>> \o SubSeq(s, k, Len(s))

RECURSIVE SortFrom(_, _)
SortFrom(sorted, rest) ==
    IF rest = <<>> THEN sorted
    ELSE SortFrom(Insert(sorted, Head(rest)), Tail(rest))

\* Array.prototype.sort(comparator)
Sort(s) == SortFrom(<<>>, s)

\* const filteredRepos = reposData.filter(...).sort(...)
filteredRepos(data) == Sort(FilterNotArchived(data))

----------------------------------------------------------------------------
(* Technology detection: the reduce over repos that builds repoLanguages.  *)

\* const topicMap: Record<string, string> = { ... }
topicMap ==
    [t \in {"react", "reactjs"} |-> "React.js"] @@
    [t \in {"typescript"} |-> "TypeScript"] @@
    [t \in {"javascript"} |-> "JavaScript"] @@
    [t \in {"nodejs", "node-js"} |-> "Node.js"] @@
    [t \in {"python"} |-> "Python"] @@
    [t \in {"docker"} |-> "Docker"] @@
    [t \in {"kubernetes"} |-> "Kubernetes"] @@
    [t \in {"aws"} |-> "AWS"] @@
    [t \in {"gcp"} |-> "Google Cloud"] @@
    [t \in {"postgresql"} |-> "PostgreSQL"] @@
    [t \in {"mysql"} |-> "MySQL"] @@
    [t \in {"redis"} |-> "Redis"] @@
    [t \in {"graphql"} |-> "GraphQL"] @@
    [t \in {"rest-api", "restful-api"} |-> "REST APIs"] @@
    [t \in {"jwt"} |-> "JWT"] @@
    [t \in {"oauth", "oauth2"} |-> "OAuth 2.0"] @@
    [t \in {"tailwindcss", "tailwind-css", "tailwind"} |-> "Tailwind CSS"] @@
    [t \in {"nextjs", "next-js"} |-> "Next.js"] @@
    [t \in {"jest", "cypress", "testing"} |-> "Jest/Cypress"] @@
    [t \in {"webpack", "vite"} |-> "Webpack/Vite"] @@
    [t \in {"sass", "scss", "css"} |-> "CSS/SCSS"] @@
    [t \in {"github-actions", "ci-cd"} |-> "GitHub Actions"] @@
    [t \in {"eslint", "prettier"} |-> "ESLint/Prettier"]

\* topicMap is an object literal, so topicMap[topic] also finds the
\* properties every object inherits from Object.prototype; their values are
\* functions, and Object.prototype itself for __proto__: all truthy, written
\* here as the string "[inherited <key>]".
ObjectPrototypeKeys ==
    {"constructor", "toString", "valueOf", "hasOwnProperty",
     "isPrototypeOf", "propertyIsEnumerable", "toLocaleString",
     "__proto__", "__defineGetter__", "__defineSetter__",
     "__lookupGetter__", "__lookupSetter__"}

Undefined == "undefined"

\* topicMap[topic]
TopicLookup(topic) ==
    IF topic \in DOMAIN topicMap THEN topicMap[topic]
    ELSE IF topic \in ObjectPrototypeKeys THEN "[inherited " \o topic \o "]"
    ELSE Undefined

RECURSIVE AddTopicsUntilUnmapped(_, _)
AddTopicsUntilUnmapped(acc, topics) ==
    IF topics = <<>> THEN acc
    ELSE IF TopicLookup(Head(topics)) = Undefined THEN acc
    ELSE AddTopicsUntilUnmapped(acc \cup {TopicLookup(Head(topics))},
                                Tail(topics))

\* repo.topics.forEach((topic) => { if (topicMap[topic]) acc.add(...) })
RECURSIVE AddTopics(_, _)
AddTopics(acc, topics) ==
    IF topics = <<>> THEN acc
    ELSE AddTopics(IF TopicLookup(Head(topics)) # Undefined
                   THEN acc \cup {TopicLookup(Head(topics))}
                   ELSE acc,
                   Tail(topics))

\* if (repo.language) acc.add(repo.language): null and "" are falsy
AddLanguage(acc, repo) ==
    IF repo.language \notin {NoLanguage, ""} THEN acc \cup {repo.language}
    ELSE acc

\* repos.reduce((acc, repo) => { ...; return acc }, new Set<string>())
RECURSIVE Reduce(_, _)
Reduce(acc, repos) ==
    IF repos = <<>> THEN acc
    ELSE Reduce(AddTopics(AddLanguage(acc, Head(repos)), Head(repos).topics),
                Tail(repos))

\* The accumulator is a new Set<string>() in every call.
repoLanguages(repos) == Reduce({}, repos)

\* No call of repos.reduce is running and no Set has been created.
NoCall == [acc |-> {}, index |-> 0]

----------------------------------------------------------------------------
(* Skill catalog: getSkillCategories, which reads repoLanguages.           *)

SkillAlwaysFromRepo(n, y, l, f) ==
    [name |-> n, years |-> y, level |-> l, fromRepo |-> TRUE]

SkillYearsFromRepo(n, y, l, f) ==
    [name |-> n, years |-> IF f THEN y + 1 ELSE y, level |-> l, fromRepo |-> f]

\* { name, years, level, fromRepo }
Skill(n, y, l, f) == [name |-> n, years |-> y, level |-> l, fromRepo |-> f]

getSkillCategories(detected) ==
    << [category |-> "Frontend & Testing",
        skills |-> <<
          Skill("JavaScript", 6, "Expert", "JavaScript" \in detected),
          Skill("TypeScript", 5, "Advanced", "TypeScript" \in detected),
          Skill("React.js", 6, "Expert", "React.js" \in detected),
          Skill("Next.js", 3, "Advanced", FALSE),
          Skill("CSS/SCSS", 6, "Advanced",
                "CSS" \in detected \/ "SCSS" \in detected),
          Skill("Jest/Cypress", 4, "Advanced", FALSE),
          Skill("Webpack/Vite", 4, "Advanced", FALSE),
          Skill("Tailwind CSS", 2, "Intermediate", FALSE),
          Skill("Storybook", 2, "Intermediate", FALSE) >>],
       [category |-> "Backend & APIs",
        skills |-> <<
          Skill("GraphQL", 4, "Advanced", "GraphQL" \in detected),
          Skill("REST APIs", 6, "Expert", "REST APIs" \in detected),
          Skill("Node.js", 4, "Intermediate", "Node.js" \in detected),
          Skill("Python", 3, "Intermediate", "Python" \in detected),
          Skill("OAuth 2.0", 3, "Advanced", "OAuth 2.0" \in detected),
          Skill("JWT", 3, "Advanced", "JWT" \in detected),
          Skill("PostgreSQL", 4, "Advanced", "PostgreSQL" \in detected),
          Skill("Redis", 2, "Intermediate", "Redis" \in detected) >>],
       [category |-> "Infrastructure & Security",
        skills |-> <<
          Skill("AWS/GCP", 3, "Intermediate",
                "AWS" \in detected \/ "Google Cloud" \in detected),
          Skill("Docker", 3, "Advanced", "Docker" \in detected),
          Skill("Kubernetes", 2, "Intermediate", "Kubernetes" \in detected),
          Skill("Payment Systems", 3, "Advanced", FALSE),
          Skill("PCI DSS", 2, "Intermediate", FALSE),
          Skill("GitHub Actions", 3, "Advanced", FALSE) >>],
       [category |-> "Development Tools",
        skills |-> <<
          Skill("Git", 6, "Expert", TRUE),
          Skill("ESLint/Prettier", 4, "Advanced", FALSE),
          Skill("Postman", 4, "Advanced", FALSE),
          Skill("Figma", 3, "Intermediate", FALSE) >>] >>

\* The skill entries of every category, as a set.
AllSkills(detected) ==
    UNION { {getSkillCategories(detected)[c].skills[i] :
                i \in 1..Len(getSkillCategories(detected)[c].skills)} :
            c \in 1..Len(getSkillCategories(detected)) }

----------------------------------------------------------------------------
(* The Projects component: the featured and the other repositories.        *)

\* const featuredProjects = ["qr-studio", "smart-brain", ...]
featuredProjects ==
    <<"qr-studio", "smart-brain", "react-music-player", "dapp-chat">>

SelfRepository == "adam-olser.github.io"

OtherCap == 6

\* list.includes(x)
includes(list, x) == \E i \in 1..Len(list) : list[i] = x

\* s.slice(0, n)
sliceFromStart(s, n) == SubSeq(s, 1, IF n < Len(s) THEN n ELSE Len(s))

IsFeatured(repo) == includes(featuredProjects, repo.name)

IsOther(repo) == ~includes(featuredProjects, repo.name) /\ repo.name # SelfRepository

featuredFirstThree(repos) == sliceFromStart(SelectSeq(repos, IsFeatured), 3)

\* const featured = repositories.filter((repo) => featuredProjects.includes(repo.name))
featured(repos) == SelectSeq(repos, IsFeatured)

otherUncapped(repos) == SelectSeq(repos, IsOther)

\* const other = repositories.filter(...).slice(0, 6)
other(repos) == sliceFromStart(SelectSeq(repos, IsOther), OtherCap)

\* What Projects({ repositories }) computes before it returns its markup.
ProjectsRender(repos) == [featured |-> featured(repos), other |-> other(repos)]

\* What About({ user, repos }) computes before it returns its markup.
AboutRender(repos) ==
    [detected |-> repoLanguages(repos),
     skillCategories |-> getSkillCategories(repoLanguages(repos))]

NoView == [rendered |-> FALSE]

\* writers.repositories is the fetch cycle whose setRepositories ran last (0:
\* none has); writers.laterUser holds when setUser ran after that call, in a
\* cycle that was started later.  Here neither has been called.
NoWriters == [repositories |-> 0, laterUser |-> FALSE]

----------------------------------------------------------------------------
(* Responses of the two endpoints.                                         *)

Repo(i, n, lang, tops, stars, upd, arch) ==
    [id |-> i, name |-> n, language |-> lang, topics |-> tops,
     stargazers_count |-> stars, updated_at |-> upd, archived |-> arch]

\* The repositories the responses of the fetch cycles are made of.
QrStudio ==
    Repo(1, "qr-studio", "TypeScript", <<"react", "nextjs">>, 5,
         <<2024, 1, 1>>, FALSE)

OldProj == Repo(2, "old-proj", NoLanguage, <<>>, 10, <<2023, 1, 1>>, TRUE)

ToolX ==
    Repo(3, "tool-x", "Go", <<"docker", "foobar-unmapped">>, 5,
         <<2024, 6, 1>>, FALSE)

\* The repository lists the endpoint answers with.
SampleFeeds == { <<>>, <<ToolX>>, <<QrStudio, OldProj, ToolX>> }

Malformed == [kind |-> "malformed"]                 \* not JSON: json() rejects
ErrorBody == [kind |-> "object", message |-> "API rate limit exceeded"]
ArrayBody(s) == [kind |-> "array", items |-> s]
ProfileBody(n) ==
    [kind |-> "object", login |-> "adam-olser", public_repos |-> n]

NullUser == [kind |-> "null"]
Profiles == {ProfileBody(1), ProfileBody(2)}

\* Bodies the profile endpoint can send with a success / non-success status.
UserBodies(ok) ==
    IF ok THEN Profiles \cup {Malformed} ELSE {ErrorBody, Malformed}

\* Bodies the repository endpoint can send.
ReposBodies(ok) ==
    IF ok THEN {ArrayBody(q) : q \in SampleFeeds} \cup {Malformed}
    ELSE {ErrorBody, Malformed}

----------------------------------------------------------------------------
(* The effect of App: fetchGitHubData and its triggers.                    *)

Req(c, endpoint) == [cycle |-> c, endpoint |-> endpoint]

InFlight == {c \in 1..Len(cycles) : cycles[c].pc # "done"}
Failed == {c \in 1..Len(cycles) : cycles[c].outcome = "failed"}
Succeeded == {c \in 1..Len(cycles) : cycles[c].outcome = "ok"}

\* A call of fetchGitHubData, suspended at its first await.
NewCycle == [pc |-> "awaitUserFetch", response |-> "none", outcome |-> "pending"]

fetchBothAtOnce ==
    /\ cycles' = Append(cycles, NewCycle)
    /\ requests' = requests \cup {Req(Len(cycles) + 1, "user"),
                                  Req(Len(cycles) + 1, "repos")}

\* const fetchGitHubData = async () => { try { await fetch(profile) ...
\* up to the first await: the profile request is issued.
fetchGitHubData ==
    /\ cycles' = Append(cycles, NewCycle)
    /\ requests' = requests \cup {Req(Len(cycles) + 1, "user")}

catchWithoutFinally(c) ==
    /\ cycles' = [cycles EXCEPT ![c].pc = "done", ![c].outcome = "failed",
                                ![c].response = "none"]
    /\ loading' = loading

\* catch (error) { console.error(...) } finally { setLoading(false) }
catchFinally(c) ==
    /\ cycles' = [cycles EXCEPT ![c].pc = "done", ![c].outcome = "failed",
                                ![c].response = "none"]
    /\ loading' = FALSE

\* The response of fetch(url) arrives, or the fetch rejects.
ResponseArrives(c, ok, nextPc) ==
    cycles' = [cycles EXCEPT ![c].pc = nextPc,
                             ![c].response = IF ok THEN "ok" ELSE "error"]

\* await fetch("https://api.github.com/users/adam-olser") settles.
UserFetchSettled(c) ==
    /\ Req(c, "user") \in requests
    /\ requests' = requests \ {Req(c, "user")}
    /\ \/ catchFinally(c) /\ event' = "rejected"
       \/ /\ \E ok \in BOOLEAN : ResponseArrives(c, ok, "awaitUserJson")
          /\ event' = "response"
          /\ UNCHANGED loading
    /\ UNCHANGED <<repositories, user, mounted, mounts, intervals, listeners,
                   hidden, reposData, view, renders, writers,
                   reduceCall>>

UserJsonSettledKeepsUser(c) ==
    /\ cycles[c].pc = "awaitUserJson"
    /\ \E body \in UserBodies(cycles[c].response = "ok") :
         IF body = Malformed
         THEN /\ catchFinally(c)
              /\ event' = "malformed"
              /\ UNCHANGED <<user, requests, writers>>
         ELSE /\ requests' = requests \cup {Req(c, "repos")}
              /\ cycles' = [cycles EXCEPT ![c].pc = "awaitReposFetch",
                                          ![c].response = "none"]
              /\ event' = "setUser"
              /\ UNCHANGED <<user, writers, loading>>
    /\ UNCHANGED <<repositories, mounted, mounts, intervals, listeners,
                   hidden, reposData, view, renders,
                   reduceCall>>

\* await userResponse.json() settles; setUser(userData); fetch(repos).
UserJsonSettled(c) ==
    /\ cycles[c].pc = "awaitUserJson"
    /\ \E body \in UserBodies(cycles[c].response = "ok") :
         IF body = Malformed
         THEN /\ catchFinally(c)
              /\ event' = "malformed"
              /\ UNCHANGED <<user, requests, writers>>
         ELSE /\ user' = body
              /\ writers' = [writers EXCEPT !.laterUser =
                                 /\ writers.repositories > 0
                                 /\ c > writers.repositories]
              /\ requests' = requests \cup {Req(c, "repos")}
              /\ cycles' = [cycles EXCEPT ![c].pc = "awaitReposFetch",
                                          ![c].response = "none"]
              /\ event' = "setUser"
              /\ UNCHANGED loading
    /\ UNCHANGED <<repositories, mounted, mounts, intervals, listeners,
                   hidden, reposData, view, renders,
                   reduceCall>>

\* await fetch(".../repos?sort=updated&per_page=100") settles.
ReposFetchSettled(c) ==
    /\ Req(c, "repos") \in requests
    /\ requests' = requests \ {Req(c, "repos")}
    /\ \/ catchFinally(c) /\ event' = "rejected"
       \/ /\ \E ok \in BOOLEAN : ResponseArrives(c, ok, "awaitReposJson")
          /\ event' = "response"
          /\ UNCHANGED loading
    /\ UNCHANGED <<repositories, user, mounted, mounts, intervals, listeners,
                   hidden, reposData, view, renders, writers,
                   reduceCall>>

ReposResultLenient(body) ==
    IF body.kind = "array"
    THEN [threw |-> FALSE, value |-> filteredRepos(body.items)]
    ELSE [threw |-> FALSE, value |-> <<>>]

ReposResultMerged(body) ==
    IF body.kind = "array"
    THEN [threw |-> FALSE, value |-> filteredRepos(repositories \o body.items)]
    ELSE [threw |-> TRUE, value |-> <<>>]

\* reposData.filter(...).sort(...): a body that is not an array has no
\* filter method and the call throws a TypeError.
ReposResult(body) ==
    IF body.kind = "array"
    THEN [threw |-> FALSE, value |-> filteredRepos(body.items)]
    ELSE [threw |-> TRUE, value |-> <<>>]

ReposJsonSettledWithoutFinally(c) ==
    /\ cycles[c].pc = "awaitReposJson"
    /\ \E body \in ReposBodies(cycles[c].response = "ok") :
         IF body = Malformed
         THEN /\ catchFinally(c)
              /\ event' = "malformed"
              /\ UNCHANGED <<repositories, reposData, writers>>
         ELSE IF ReposResult(body).threw
         THEN /\ catchFinally(c)
              /\ event' = "typeError"
              /\ UNCHANGED <<repositories, reposData, writers>>
         ELSE /\ repositories' = ReposResult(body).value
              /\ reposData' = IF body.kind = "array" THEN body.items ELSE <<>>
              /\ cycles' = [cycles EXCEPT ![c].pc = "done",
                                          ![c].outcome = "ok",
                                          ![c].response = "none"]
              /\ writers' = [repositories |-> c, laterUser |-> FALSE]
              /\ event' = "setRepositories"
              /\ UNCHANGED loading
    /\ UNCHANGED <<user, mounted, mounts, intervals, listeners, hidden,
                   requests, view, renders,
                   reduceCall>>

\* await reposResponse.json() settles; filter, sort, setRepositories; finally.
ReposJsonSettled(c) ==
    /\ cycles[c].pc = "awaitReposJson"
    /\ \E body \in ReposBodies(cycles[c].response = "ok") :
         IF body = Malformed
         THEN /\ catchFinally(c)
              /\ event' = "malformed"
              /\ UNCHANGED <<repositories, reposData, writers>>
         ELSE IF ReposResult(body).threw
         THEN /\ catchFinally(c)
              /\ event' = "typeError"
              /\ UNCHANGED <<repositories, reposData, writers>>
         ELSE /\ repositories' = ReposResult(body).value
              /\ reposData' = IF body.kind = "array" THEN body.items ELSE <<>>
              /\ cycles' = [cycles EXCEPT ![c].pc = "done",
                                          ![c].outcome = "ok",
                                          ![c].response = "none"]
              /\ writers' = [repositories |-> c, laterUser |-> FALSE]
              /\ event' = "setRepositories"
              /\ loading' = FALSE
    /\ UNCHANGED <<user, mounted, mounts, intervals, listeners, hidden,
                   requests, view, renders,
                   reduceCall>>

cleanupLeaksInterval ==
    /\ intervals' = intervals
    /\ listeners' = listeners \ {mounts}

\* return () => { clearInterval(refreshInterval);
\*                document.removeEventListener("visibilitychange", ...) }
cleanup ==
    /\ intervals' = intervals \ {mounts}
    /\ listeners' = listeners \ {mounts}

\* useEffect(() => { fetchGitHubData(); setInterval(...);
\*                   document.addEventListener(...) }, [])
Mount ==
    /\ ~mounted
    /\ Len(cycles) < MaxCycles
    /\ mounted' = TRUE
    /\ mounts' = mounts + 1
    /\ fetchGitHubData
    /\ intervals' = intervals \cup {mounts + 1}
    /\ listeners' = listeners \cup {mounts + 1}
    /\ event' = "mount"
    /\ UNCHANGED <<repositories, user, loading, hidden, reposData, view, renders, writers,
                   reduceCall>>

UnmountAbortsFetches ==
    /\ mounted
    /\ mounted' = FALSE
    /\ cleanup
    /\ requests' = {}
    /\ cycles' = [c \in 1..Len(cycles) |->
                     IF cycles[c].pc = "done" THEN cycles[c]
                     ELSE [pc |-> "done", response |-> "none",
                           outcome |-> "failed"]]
    /\ event' = "unmount"
    /\ UNCHANGED <<repositories, user, loading, mounts, hidden,
                   reposData, view, renders, writers,
                   reduceCall>>

\* The component is unmounted: the effect's cleanup runs.
Unmount ==
    /\ mounted
    /\ mounted' = FALSE
    /\ cleanup
    /\ event' = "unmount"
    /\ UNCHANGED <<repositories, user, loading, mounts, hidden, cycles,
                   requests, reposData, view, renders, writers,
                   reduceCall>>

IntervalElapsedCoalesced ==
    /\ IF intervals # {} /\ InFlight = {}
       THEN Len(cycles) < MaxCycles /\ fetchGitHubData
       ELSE UNCHANGED <<cycles, requests>>
    /\ event' = "tick"
    /\ UNCHANGED <<repositories, user, loading, mounted, mounts, intervals,
                   listeners, hidden, reposData, view, renders, writers,
                   reduceCall>>

IntervalElapsedShowsLoading ==
    /\ IF intervals # {}
       THEN Len(cycles) < MaxCycles /\ fetchGitHubData /\ loading' = TRUE
       ELSE UNCHANGED <<cycles, requests, loading>>
    /\ event' = "tick"
    /\ UNCHANGED <<repositories, user, mounted, mounts, intervals,
                   listeners, hidden, reposData, view, renders, writers,
                   reduceCall>>

\* Five minutes pass: an interval that is still set calls fetchGitHubData.
IntervalElapsed ==
    /\ IF intervals # {}
       THEN Len(cycles) < MaxCycles /\ fetchGitHubData
       ELSE UNCHANGED <<cycles, requests>>
    /\ event' = "tick"
    /\ UNCHANGED <<repositories, user, loading, mounted, mounts, intervals,
                   listeners, hidden, reposData, view, renders, writers,
                   reduceCall>>

handleVisibilityChangeAlways ==
    Len(cycles) < MaxCycles /\ fetchGitHubData

\* const handleVisibilityChange = () => { if (!document.hidden) ... }
handleVisibilityChange ==
    IF ~hidden'
    THEN Len(cycles) < MaxCycles /\ fetchGitHubData
    ELSE UNCHANGED <<cycles, requests>>

\* The page is hidden or shown; the browser dispatches visibilitychange to
\* the listeners that are registered.
VisibilityChange ==
    /\ hidden' = ~hidden
    /\ IF listeners # {} THEN handleVisibilityChange
       ELSE UNCHANGED <<cycles, requests>>
    /\ event' = "visibilitychange"
    /\ UNCHANGED <<repositories, user, loading, mounted, mounts, intervals,
                   listeners, reposData, view, renders, writers,
                   reduceCall>>

Init ==
    /\ repositories = <<>>
    /\ user = NullUser
    /\ loading = TRUE
    /\ mounted = FALSE
    /\ mounts = 0
    /\ intervals = {}
    /\ listeners = {}
    /\ hidden \in BOOLEAN
    /\ cycles = <<>>
    /\ requests = {}
    /\ reposData = <<>>
    /\ event = "init"
    /\ view = NoView
    /\ renders = <<>>
    /\ writers = NoWriters
    /\ reduceCall = NoCall

Next ==
    \/ Mount
    \/ Unmount
    \/ IntervalElapsed
    \/ VisibilityChange
    \/ \E c \in 1..Len(cycles) : UserFetchSettled(c)
    \/ \E c \in 1..Len(cycles) : UserJsonSettled(c)
    \/ \E c \in 1..Len(cycles) : ReposFetchSettled(c)
    \/ \E c \in 1..Len(cycles) : ReposJsonSettled(c)

Spec == Init /\ [][Next]_vars

\* Every fetch that was issued settles, and so does every json() call: the
\* network answers or fails, and a promise that can settle does.  Mounting,
\* unmounting, the timer and the visibility of the page are under no
\* obligation.
Settles(c) ==
    /\ WF_vars(c \in DOMAIN cycles /\ UserFetchSettled(c))
    /\ WF_vars(c \in DOMAIN cycles /\ UserJsonSettled(c))
    /\ WF_vars(c \in DOMAIN cycles /\ ReposFetchSettled(c))
    /\ WF_vars(c \in DOMAIN cycles /\ ReposJsonSettled(c))

\* The steps of Next in behaviours with at most LiveCycles fetch cycles.
NextLive ==
    \/ Len(cycles) < LiveCycles /\ Mount
    \/ Unmount
    \/ Len(cycles) < LiveCycles /\ IntervalElapsed
    \/ Len(cycles) < LiveCycles /\ VisibilityChange
    \/ \E c \in 1..Len(cycles) : UserFetchSettled(c)
    \/ \E c \in 1..Len(cycles) : UserJsonSettled(c)
    \/ \E c \in 1..Len(cycles) : ReposFetchSettled(c)
    \/ \E c \in 1..Len(cycles) : ReposJsonSettled(c)

SpecLive == Init /\ [][NextLive]_vars /\ \A c \in 1..LiveCycles : Settles(c)

----------------------------------------------------------------------------
(* The repository pipeline on its own: every input of bounded length, star *)
(* count and date, with the position in the input as the identifier.       *)

\* Date(0) = 2023-06-01, Date(1) = 2023-01-15, Date(2) = 2024-06-01, ...
Date(i) ==
    <<2023 + i \div 2, IF i % 2 = 0 THEN 6 ELSE 1, IF i % 2 = 0 THEN 1 ELSE 15>>

Dates == {Date(i) : i \in 0..MaxDate}

RepoAttrs == [stars : 0..MaxStars, updated : Dates, archived : BOOLEAN]

\* The response whose i-th repository has the attributes q[i].
PipelineInput(q) ==
    [i \in 1..Len(q) |-> Repo(i, "repo", NoLanguage, <<>>, q[i].stars,
                              q[i].updated, q[i].archived)]

InitPipeline ==
    /\ repositories = <<>>
    /\ user = NullUser
    /\ loading = TRUE
    /\ mounted = FALSE
    /\ mounts = 0
    /\ intervals = {}
    /\ listeners = {}
    /\ hidden = FALSE
    /\ cycles = <<>>
    /\ requests = {}
    /\ \E k \in 0..MaxLen :
          \E q \in [1..k -> RepoAttrs] : reposData = PipelineInput(q)
    /\ event = "init"
    /\ view = NoView
    /\ renders = <<>>
    /\ writers = NoWriters
    /\ reduceCall = NoCall

\* setRepositories(reposData.filter(...).sort(...)) on the given input, and
\* the finally block after it: setLoading(false).
ApplyPipeline ==
    /\ event = "init"
    /\ repositories' = filteredRepos(reposData)
    /\ loading' = FALSE
    /\ event' = "setRepositories"
    /\ UNCHANGED <<user, mounted, mounts, intervals, listeners,
                   hidden, cycles, requests, reposData, view, renders, writers,
                   reduceCall>>

NextPipeline == ApplyPipeline

SpecPipeline == InitPipeline /\ [][NextPipeline]_vars

----------------------------------------------------------------------------
(* The About component on its own: it is rendered with a repos prop, the   *)
(* prop is reordered or replaced and later restored, and it is rendered    *)
(* again.  Every repos prop of bounded size over the pools below is tried. *)

TopicPool == {"react", "foobar-unmapped", "constructor"}

LanguagePool == {NoLanguage, "TypeScript"}

\* Sequences of distinct elements of S, of length at most n.
DistinctSeqs(S, n) ==
    {q \in UNION {[1..k -> S] : k \in 0..n} :
        \A i, j \in 1..Len(q) : i # j => q[i] # q[j]}

\* The number of topics of all repositories of q together.
TopicCount(q) ==
    Cardinality(UNION { {<<i, j>> : j \in 1..Len(q[i][2])} : i \in 1..Len(q) })

\* The repos prop whose i-th repository has language q[i][1], topics q[i][2].
DetectorInput(q) ==
    [i \in 1..Len(q) |-> Repo(i, "repo", q[i][1], q[i][2], 0, Date(0), FALSE)]

fetchVars == <<user, loading, mounted, mounts, intervals, listeners, hidden,
               cycles, requests, reposData, writers>>

InitAbout ==
    /\ \E k \in 0..MaxRepos :
          \E q \in [1..k -> LanguagePool \X DistinctSeqs(TopicPool, MaxTopics)] :
              /\ TopicCount(q) <= MaxTopics
              /\ repositories = DetectorInput(q)
    /\ user = NullUser
    /\ loading = FALSE
    /\ mounted = TRUE
    /\ mounts = 1
    /\ intervals = {1}
    /\ listeners = {1}
    /\ hidden = FALSE
    /\ cycles = <<>>
    /\ requests = {}
    /\ reposData = <<>>
    /\ event = "init"
    /\ view = NoView
    /\ renders = <<>>
    /\ writers = NoWriters
    /\ reduceCall = NoCall

\* About({ user, repos }) is called with the current repositories; the call
\* of repos.reduce in it creates a Set and leaves it filled.
RenderAbout ==
    /\ Len(renders) < MaxRenders
    /\ view' = AboutRender(repositories)
    /\ reduceCall' = [acc |-> repoLanguages(repositories), index |-> 0]
    /\ renders' = Append(renders, [repos |-> repositories,
                                   detected |-> view'.detected])
    /\ event' = "render"
    /\ UNCHANGED <<repositories, fetchVars>>

Swap(s, i) == [s EXCEPT ![i] = s[i + 1], ![i + 1] = s[i]]

\* The same repositories arrive in another order: two neighbours trade places.
ReorderRepos ==
    /\ event = "render"
    /\ Len(renders) = 1
    /\ \E i \in 1..(Len(repositories) - 1) :
          repositories' = Swap(repositories, i)
    /\ event' = "reorder"
    /\ UNCHANGED <<view, renders, reduceCall, fetchVars>>

\* The topics of one repository arrive in another order.
ReorderTopics ==
    /\ event = "render"
    /\ Len(renders) = 1
    /\ \E r \in 1..Len(repositories) :
          \E i \in 1..(Len(repositories[r].topics) - 1) :
              repositories' = [repositories EXCEPT ![r].topics = Swap(@, i)]
    /\ event' = "reorder"
    /\ UNCHANGED <<view, renders, reduceCall, fetchVars>>

\* setRepositories puts another repository list in place.
ReplaceRepos ==
    /\ event = "render"
    /\ Len(renders) = 1
    /\ \E f \in SampleFeeds :
          /\ filteredRepos(f) # repositories
          /\ repositories' = filteredRepos(f)
    /\ event' = "replace"
    /\ UNCHANGED <<view, renders, reduceCall, fetchVars>>

\* The repository list of the first render is in place again.
RestoreRepos ==
    /\ event = "render"
    /\ Len(renders) >= 2
    /\ renders[1].repos # repositories
    /\ repositories' = renders[1].repos
    /\ event' = "restore"
    /\ UNCHANGED <<view, renders, reduceCall, fetchVars>>

NextAbout ==
    \/ RenderAbout
    \/ ReorderRepos
    \/ ReorderTopics
    \/ ReplaceRepos
    \/ RestoreRepos

SpecAbout == InitAbout /\ [][NextAbout]_vars

----------------------------------------------------------------------------
(* The call of repos.reduce in About, callback by callback.  The Set is an *)
(* object that the callback changes in place with acc.add; reduceCall.acc  *)
(* is that object and reduceCall.index the repository the callback visits  *)
(* next.  When the call has returned, the object stays as it is until the  *)
(* next call creates another.                                               *)

ReduceStartKeepsSet ==
    /\ reduceCall.index = 0
    /\ Len(renders) < MaxRenders
    /\ reduceCall' = [acc |-> reduceCall.acc, index |-> 1]
    /\ event' = "reduce"
    /\ UNCHANGED <<repositories, user, loading, mounted, mounts, intervals,
                   listeners, hidden, cycles, requests, reposData, view,
                   renders, writers>>

\* repos.reduce(callback, new Set<string>()): the initial value is created.
ReduceStart ==
    /\ reduceCall.index = 0
    /\ Len(renders) < MaxRenders
    /\ reduceCall' = [acc |-> {}, index |-> 1]
    /\ event' = "reduce"
    /\ UNCHANGED <<repositories, user, loading, mounted, mounts, intervals,
                   listeners, hidden, cycles, requests, reposData, view,
                   renders, writers>>

\* The callback runs on the next repository: acc.add of its language and of
\* the table values of its topics; return acc.
ReduceStep ==
    /\ reduceCall.index \in 1..Len(repositories)
    /\ reduceCall' =
          [acc |-> AddTopics(AddLanguage(reduceCall.acc,
                                         repositories[reduceCall.index]),
                             repositories[reduceCall.index].topics),
           index |-> reduceCall.index + 1]
    /\ event' = "callback"
    /\ UNCHANGED <<repositories, user, loading, mounted, mounts, intervals,
                   listeners, hidden, cycles, requests, reposData, view,
                   renders, writers>>

\* reduce returns the Set: it is repoLanguages, which getSkillCategories
\* reads for the rest of the render.
ReduceReturn ==
    /\ reduceCall.index = Len(repositories) + 1
    /\ reduceCall' = [reduceCall EXCEPT !.index = 0]
    /\ view' = [detected |-> reduceCall.acc,
                skillCategories |-> getSkillCategories(reduceCall.acc)]
    /\ renders' = Append(renders, [repos |-> repositories,
                                   detected |-> reduceCall.acc])
    /\ event' = "render"
    /\ UNCHANGED <<repositories, user, loading, mounted, mounts, intervals,
                   listeners, hidden, cycles, requests, reposData, writers>>

NextDetector ==
    \/ ReduceStart
    \/ ReduceStep
    \/ ReduceReturn
    \/ ReplaceRepos
    \/ RestoreRepos

SpecDetector == InitAbout /\ [][NextDetector]_vars

----------------------------------------------------------------------------
(* The Projects component on its own: it is rendered once with a repos     *)
(* prop.  Every position of the prop holds a featured repository, the      *)
(* site's own repository or another repository; repository names are       *)
(* unique, as they are within one GitHub account.                          *)

ProjectKinds == {"featured", "self", "other"}

CountKind(q, i, kind) == Cardinality({j \in 1..i : q[j] = kind})

\* The k-th featured repository of an input is the allow-list entry k + r,
\* counted cyclically, so that inputs list them in orders other than the
\* allow-list's.
ProjectName(q, r, i) ==
    IF q[i] = "featured"
    THEN featuredProjects[((CountKind(q, i, "featured") + r - 1)
                              % Len(featuredProjects)) + 1]
    ELSE IF q[i] = "self" THEN SelfRepository
    ELSE "project-" \o ToString(i)

ProjectsInput(q, r) ==
    [i \in 1..Len(q) |->
        Repo(i, ProjectName(q, r, i), NoLanguage, <<>>, 0, Date(0), FALSE)]

InitProjects ==
    /\ \E k \in 0..MaxProjects :
          \E q \in [1..k -> ProjectKinds] :
              \E r \in 0..(Len(featuredProjects) - 1) :
                  /\ CountKind(q, k, "featured") <= Len(featuredProjects)
                  /\ CountKind(q, k, "self") <= 1
                  /\ repositories = ProjectsInput(q, r)
    /\ user = NullUser
    /\ loading = FALSE
    /\ mounted = TRUE
    /\ mounts = 1
    /\ intervals = {1}
    /\ listeners = {1}
    /\ hidden = FALSE
    /\ cycles = <<>>
    /\ requests = {}
    /\ reposData = <<>>
    /\ event = "init"
    /\ view = NoView
    /\ renders = <<>>
    /\ writers = NoWriters
    /\ reduceCall = NoCall

\* Projects({ repos }) is called with the current repositories.
RenderProjects ==
    /\ view = NoView
    /\ view' = ProjectsRender(repositories)
    /\ event' = "render"
    /\ UNCHANGED <<repositories, renders, reduceCall, fetchVars>>

NextProjects == RenderProjects

SpecProjects == InitProjects /\ [][NextProjects]_vars

----------------------------------------------------------------------------
(* Properties.                                                             *)

CycleIds == 1..Len(cycles)

FirstCycleFailedBeforeAnySuccess ==
    /\ Len(cycles) >= 1
    /\ cycles[1].outcome = "failed"
    /\ Succeeded = {}

\* C1 as stated: when the first fetch cycle has failed and no cycle has
\* succeeded, the loading flag is still true.
C1_LoadingPersistsAfterFirstFailure ==
    FirstCycleFailedBeforeAnySuccess => loading = TRUE

\* C1 amended: when the first fetch cycle has failed and no cycle has
\* succeeded, the loading flag is false: the finally step of the failed
\* cycle cleared it, and the view shows the initial empty repository list.
C1_LoadingClearedAfterFirstFailure ==
    FirstCycleFailedBeforeAnySuccess => loading = FALSE

C1_Witness ==
    /\ FirstCycleFailedBeforeAnySuccess
    /\ event \in {"rejected", "malformed", "typeError"}
    /\ Len(cycles) = 1
    /\ loading = FALSE

\* C2 as stated: a fetch cycle that has just started has both its profile
\* request and its repository request in flight.
C2_BothRequestsInFlight ==
    \A c \in CycleIds :
        cycles[c].pc = "awaitUserFetch" =>
            {Req(c, "user"), Req(c, "repos")} \subseteq requests

\* C2 amended: the two requests of a cycle are sequential.  The repository
\* request of a cycle is in flight only after the profile response of that
\* cycle was received and parsed, so the two are never in flight together
\* and the repository response never arrives before the profile response.
C2_RequestsAreSequential ==
    \A c \in CycleIds :
        /\ Req(c, "user") \in requests <=> cycles[c].pc = "awaitUserFetch"
        /\ Req(c, "repos") \in requests <=> cycles[c].pc = "awaitReposFetch"

C2_Witness ==
    \E c \in CycleIds :
        /\ Req(c, "repos") \in requests
        /\ Req(c, "user") \notin requests
        /\ user \in Profiles

\* C3: after unmount no interval and no listener of the effect remains, and
\* no interval tick and no visibility change that happens while the view is
\* unmounted starts a fetch cycle.
C3_ReleasedOnUnmount ==
    /\ [](~mounted => intervals = {} /\ listeners = {})
    /\ [][(~mounted /\ event' \in {"tick", "visibilitychange"})
            => cycles' = cycles /\ requests' = requests]_vars

C3_Witness ==
    /\ ~mounted
    /\ mounts >= 2
    /\ event = "tick"
    /\ ~hidden
    /\ InFlight # {}

\* C4: while the view is mounted its interval and its listener stay
\* registered, and every interval tick and every change of the page from
\* hidden to visible starts exactly one new fetch cycle, whatever the state
\* of the earlier cycles.
C4_TriggerNeverLost ==
    /\ [](mounted => mounts \in intervals /\ mounts \in listeners)
    /\ [][(mounted /\ (\/ event' = "tick"
                       \/ event' = "visibilitychange" /\ hidden /\ ~hidden'))
            => /\ Len(cycles') = Len(cycles) + 1
               /\ cycles'[Len(cycles')].pc = "awaitUserFetch"
               /\ Req(Len(cycles'), "user") \in requests']_vars

C4_Witness ==
    /\ mounted
    /\ event = "tick"
    /\ Failed # {}
    /\ InFlight \ {Len(cycles)} # {}
    /\ cycles[Len(cycles)].pc = "awaitUserFetch"

\* C5: a step that processes a profile response with a non-success status
\* or a malformed body ends the cycle as failed and leaves the profile
\* state unchanged.
C5_ProfileErrorIsFailure ==
    [][\A c \in CycleIds :
          ( /\ cycles[c].pc = "awaitUserJson"
            /\ cycles'[c].pc # "awaitUserJson"
            /\ cycles[c].response = "error" \/ event' = "malformed" )
          => user' = user /\ cycles'[c].outcome = "failed"]_vars

\* C6: a step in which a cycle fails (rejected fetch, malformed body, error
\* body), and any step that processes a repository response with a
\* non-success status, leaves the repository state unchanged and ends the
\* cycle as failed.
C6_FailureKeepsRepositories ==
    [][\A c \in CycleIds :
          ( \/ cycles[c].outcome = "pending" /\ cycles'[c].outcome = "failed"
            \/ /\ cycles[c].pc = "awaitReposJson"
               /\ cycles[c].response = "error"
               /\ cycles'[c].pc # "awaitReposJson" )
          => repositories' = repositories /\ cycles'[c].outcome = "failed"]_vars

C6_Witness ==
    /\ event = "typeError"
    /\ repositories # <<>>
    /\ Succeeded # {}

Range(s) == {s[i] : i \in 1..Len(s)}

\* C7: the repository state holds no archived repository, and holds exactly
\* the non-archived repositories of the response it was computed from.
C7_NoArchived ==
    /\ \A i \in 1..Len(repositories) : ~repositories[i].archived
    /\ Range(repositories) = {r \in Range(reposData) : ~r.archived}
    /\ Len(repositories) = Cardinality({r \in Range(reposData) : ~r.archived})

C7_Witness ==
    /\ event = "setRepositories"
    /\ \E r \in Range(reposData) : r.archived
    /\ repositories # <<>>

\* C8: in the pipeline output, for every A before B, A has more stars than
\* B, or as many stars and a last-update date not earlier than B's.
C8_SortedByStarsThenUpdate ==
    event = "setRepositories" =>
        \A i, j \in 1..Len(repositories) :
            i < j =>
                LET A == repositories[i]
                    B == repositories[j]
                IN  \/ A.stargazers_count > B.stargazers_count
                    \/ /\ A.stargazers_count = B.stargazers_count
                       /\ DateLeq(B.updated_at, A.updated_at)

\* Two equal-star repositories arrived older first and left newer first.
C8_Witness ==
    /\ event = "setRepositories"
    /\ \E i, j \in 1..Len(repositories) :
          /\ i < j
          /\ repositories[i].stargazers_count = repositories[j].stargazers_count
          /\ repositories[i].updated_at # repositories[j].updated_at
          /\ repositories[i].id > repositories[j].id

\* C9: two repositories of the output with equal stars and equal update
\* date are in the order they had in the input (the identifier of a
\* repository is its position in the input).
C9_StableSort ==
    event = "setRepositories" =>
        \A i, j \in 1..Len(repositories) :
            ( /\ i < j
              /\ repositories[i].stargazers_count = repositories[j].stargazers_count
              /\ repositories[i].updated_at = repositories[j].updated_at )
            => repositories[i].id < repositories[j].id

\* Two repositories with equal keys stay in order while a third one, which
\* arrived between them, is moved in front of both.
C9_Witness ==
    /\ event = "setRepositories"
    /\ Len(repositories) = 3
    /\ repositories[1].id = 2
    /\ repositories[2].id = 1
    /\ repositories[3].id = 3
    /\ repositories[2].stargazers_count = repositories[3].stargazers_count
    /\ repositories[2].updated_at = repositories[3].updated_at

\* C10: every catalog skill other than Git is marked fromRepo exactly when
\* its name is in the set of technologies detected from the repositories.
C10_EvidencedIffDetected ==
    \A skill \in AllSkills(repoLanguages(repositories)) :
        skill.name # "Git" =>
            (skill.fromRepo <=> skill.name \in repoLanguages(repositories))

----------------------------------------------------------------------------
(* The About component: detector and catalog (SpecAbout).                  *)

\* The non-null primary languages of a repository list.
LanguagesOf(repos) ==
    {repos[i].language : i \in {k \in 1..Len(repos) :
                                   repos[k].language # NoLanguage}}

\* The table image of the topics of a repository list that are table keys.
MappedTopicsOf(repos) ==
    UNION { {topicMap[repos[i].topics[k]] :
                k \in {m \in 1..Len(repos[i].topics) :
                          repos[i].topics[m] \in DOMAIN topicMap}} :
            i \in 1..Len(repos) }

\* C11: the detected set of every render is exactly the non-null primary
\* languages of the repositories together with the table image of those
\* topics that are keys of the table; a topic that is no key of the table
\* adds nothing.
C11_DetectedIsLanguagesAndMappedTopics ==
    \A i \in 1..Len(renders) :
        renders[i].detected =
            LanguagesOf(renders[i].repos) \cup MappedTopicsOf(renders[i].repos)

\* Two repository lists that differ in the order of the repositories and
\* in the order of the topics of a repository only.
RepoKey(repo) ==
    [id |-> repo.id, language |-> repo.language, topics |-> Range(repo.topics)]

SameUpToOrder(a, b) ==
    /\ Len(a) = Len(b)
    /\ {RepoKey(a[i]) : i \in 1..Len(a)} = {RepoKey(b[i]) : i \in 1..Len(b)}

\* C14: two renders whose repository lists are permutations of each other,
\* in the order of the repositories or of the topics within a repository,
\* detect the same set.
C14_OrderIndependent ==
    \A i, j \in 1..Len(renders) :
        SameUpToOrder(renders[i].repos, renders[j].repos)
            => renders[i].detected = renders[j].detected

\* A render after a reordering: the list differs from the one of the first
\* render, an unmapped topic stands next to a mapped one, and something was
\* detected.
C14_Witness ==
    /\ event = "render"
    /\ Len(renders) >= 2
    /\ renders[1].repos # renders[2].repos
    /\ SameUpToOrder(renders[1].repos, renders[2].repos)
    /\ renders[2].detected # {}
    /\ \E i \in 1..Len(renders[2].repos) :
          "foobar-unmapped" \in Range(renders[2].repos[i].topics)

CategoryNames == <<"Frontend & Testing", "Backend & APIs",
                   "Infrastructure & Security", "Development Tools">>

CategorySizes == <<9, 8, 6, 4>>

\* A category list with the evidenced flags left out.
WithoutFlags(categories) ==
    [c \in 1..Len(categories) |->
        [category |-> categories[c].category,
         skills |-> [k \in 1..Len(categories[c].skills) |->
                        [name |-> categories[c].skills[k].name,
                         years |-> categories[c].skills[k].years,
                         level |-> categories[c].skills[k].level]]]]

\* C15: every render shows four categories in the fixed order with 9, 8, 6
\* and 4 skills, and its names, years and levels are those shown for the
\* empty detected set: only the evidenced flag varies with the input.
C15_FixedCatalog ==
    event = "render" =>
        /\ Len(view.skillCategories) = 4
        /\ \A c \in 1..4 :
              /\ view.skillCategories[c].category = CategoryNames[c]
              /\ Len(view.skillCategories[c].skills) = CategorySizes[c]
        /\ WithoutFlags(view.skillCategories)
              = WithoutFlags(getSkillCategories({}))

\* A render whose detected set marks a skill other than Git as evidenced.
C15_Witness ==
    /\ event = "render"
    /\ "TypeScript" \in view.detected
    /\ \E k \in 1..Len(view.skillCategories[1].skills) :
          /\ view.skillCategories[1].skills[k].name = "TypeScript"
          /\ view.skillCategories[1].skills[k].fromRepo

\* The skills of a category list, with their flags.
SkillsOf(categories) ==
    UNION { Range(categories[c].skills) : c \in 1..Len(categories) }

\* C16: a render with an empty detected set marks exactly one skill as
\* evidenced, the skill named Git.
C16_OnlyGitWhenNothingDetected ==
    (event = "render" /\ view.detected = {}) =>
        {skill.name : skill \in {sk \in SkillsOf(view.skillCategories) :
                                    sk.fromRepo}} = {"Git"}

\* A render with nothing detected: no repositories, or repositories that
\* have neither a language nor a mapped topic.
C16_Witness ==
    /\ event = "render"
    /\ view.detected = {}
    /\ \E sk \in SkillsOf(view.skillCategories) : sk.name = "Git" /\ sk.fromRepo

\* C18: two calls of repos.reduce on the same repository list return the
\* same set, whatever list a call between them was given: each call starts
\* from a Set of its own, so nothing an earlier call added is in the result,
\* which is the set the detector gives for that list alone.
C18_DetectorIdempotent ==
    /\ \A i, j \in 1..Len(renders) :
          renders[i].repos = renders[j].repos
              => renders[i].detected = renders[j].detected
    /\ \A i \in 1..Len(renders) :
          renders[i].detected
              = LanguagesOf(renders[i].repos)
                \cup {TopicLookup(t) :
                        t \in {u \in UNION {Range(renders[i].repos[n].topics) :
                                              n \in 1..Len(renders[i].repos)} :
                                  TopicLookup(u) # Undefined}}

\* The first list was reduced again after a call on another list, and that
\* call had put into its Set a technology the first list does not give.
C18_Witness ==
    /\ event = "render"
    /\ reduceCall.index = 0
    /\ Len(renders) = 3
    /\ renders[1].repos = renders[3].repos
    /\ renders[2].repos # renders[1].repos
    /\ ~(renders[2].detected \subseteq renders[1].detected)

----------------------------------------------------------------------------
(* The Projects component (SpecProjects).                                  *)

\* The positions of the repository list whose name is on the allow-list.
FeaturedPositions ==
    {i \in 1..Len(repositories) : repositories[i].name \in Range(featuredProjects)}

\* The positions whose name is neither on the allow-list nor the site's own.
OtherPositions ==
    {i \in 1..Len(repositories) :
        /\ repositories[i].name \notin Range(featuredProjects)
        /\ repositories[i].name # "adam-olser.github.io"}

\* shown lists the repositories at the first Len(shown) positions of P, in
\* increasing order of position.
ShowsFirstOf(shown, P) ==
    \A k \in 1..Len(shown) :
        \E i \in P : /\ Cardinality({j \in P : j < i}) = k - 1
                     /\ shown[k] = repositories[i]

\* C12: the Other view is the first six, in list order, of the repositories
\* that are neither featured nor the site's own; with n such repositories
\* it has min(6, n) entries, none when there are none.
C12_OtherIsFirstSix ==
    event = "render" =>
        /\ Len(view.other) = IF Cardinality(OtherPositions) < 6
                             THEN Cardinality(OtherPositions) ELSE 6
        /\ ShowsFirstOf(view.other, OtherPositions)

\* More than six other repositories, behind a featured one and with the
\* site's own repository among them: six are shown.
C12_Witness ==
    /\ event = "render"
    /\ Cardinality(OtherPositions) > 6
    /\ Len(view.other) = 6
    /\ 1 \in FeaturedPositions
    /\ \E i \in 1..Len(repositories) :
          i < view.other[6].id /\ repositories[i].name = SelfRepository

\* C13: the Featured and the Other view share no repository, and the
\* Featured view is all repositories of the list whose name is on the
\* allow-list, in list order, however many there are.
C13_FeaturedDisjointAndComplete ==
    event = "render" =>
        /\ Range(view.featured) \cap Range(view.other) = {}
        /\ Len(view.featured) = Cardinality(FeaturedPositions)
        /\ ShowsFirstOf(view.featured, FeaturedPositions)

\* All four allow-list repositories are in the list, in an order other than
\* the allow-list's, between other repositories.
C13_Witness ==
    /\ event = "render"
    /\ Len(view.featured) = 4
    /\ view.featured[1].name # featuredProjects[1]
    /\ Len(view.other) >= 2
    /\ view.other[1].id < view.featured[1].id
    /\ view.featured[4].id < view.other[Len(view.other)].id

----------------------------------------------------------------------------
(* The fetch cycles again (Spec): visibility, overlap, the two slots.      *)

\* C17: while the listener is registered, a visibilitychange event that
\* leaves the page visible starts one fetch cycle in the same step, and one
\* that leaves the page hidden starts none.
C17_VisibilityStartsCycleIffVisible ==
    [][ (listeners # {} /\ event' = "visibilitychange") =>
            /\ hidden' = ~hidden
            /\ IF hidden'
               THEN cycles' = cycles /\ requests' = requests
               ELSE /\ cycles' = Append(cycles, NewCycle)
                    /\ requests' = requests \cup {Req(Len(cycles) + 1, "user")}
      ]_vars

\* The page has just become visible again and the cycle that this started
\* is waiting for the profile, next to the cycle of the mount.
C17_Witness ==
    /\ event = "visibilitychange"
    /\ ~hidden
    /\ listeners # {}
    /\ Len(cycles) >= 2
    /\ cycles[Len(cycles)] = NewCycle
    /\ Req(Len(cycles), "user") \in requests

\* C19: the repository state is the filtered and sorted response of the
\* cycle whose setRepositories ran last, whole and unmerged, and it is
\* empty as long as no cycle has got that far.
C19_RepositoriesAreLastResponse ==
    /\ repositories = filteredRepos(reposData)
    /\ writers.repositories = 0 => repositories = <<>>
    /\ writers.repositories # 0 => writers.repositories \in Succeeded

\* All cycles have settled; the repositories shown are those of a cycle
\* that was started before another successful one, whose response they
\* replaced.
C19_Witness ==
    /\ InFlight = {}
    /\ Len(cycles) >= 2
    /\ writers.repositories # 0
    /\ \E c \in Succeeded : c > writers.repositories
    /\ repositories # <<>>
    /\ Len(repositories) < Len(reposData)

FailureEvents == {"rejected", "malformed", "typeError"}

\* C20: the step that sets the profile puts the response body in the
\* profile state and leaves the repository state alone, and the step in
\* which a cycle fails leaves both as they are: a cycle that fails after
\* its profile arrived has replaced the profile only.
C20_SeparateSlots ==
    [][ /\ event' = "setUser" =>
              /\ user' \in Profiles \cup {ErrorBody}
              /\ repositories' = repositories
        /\ event' \in FailureEvents =>
              /\ user' = user
              /\ repositories' = repositories
      ]_vars

\* The first cycle succeeded; the second one set the profile after that
\* and then failed: the profile of the second cycle is shown with the
\* repositories of the first.
C20_Witness ==
    /\ event \in FailureEvents
    /\ Len(cycles) = 2
    /\ cycles[1].outcome = "ok"
    /\ cycles[2].outcome = "failed"
    /\ writers.repositories = 1
    /\ writers.laterUser
    /\ user \in Profiles
    /\ repositories # <<>>

\* C21: the unmount step leaves every fetch cycle and every request in
\* flight as it is, and while the component stays unmounted no new cycle
\* starts and the steps of the cycles in flight go on writing the profile,
\* the repositories and the loading flag as they do while mounted.
C21_UnmountDoesNotCancel ==
    /\ [][event' = "unmount" => (cycles' = cycles /\ requests' = requests)]_vars
    /\ [][(~mounted /\ ~mounted') =>
            /\ Len(cycles') = Len(cycles)
            /\ event' = "setUser" => user' \in Profiles \cup {ErrorBody}
            /\ event' = "setRepositories" =>
                  (repositories' = filteredRepos(reposData') /\ ~loading')
            /\ event' \in FailureEvents => ~loading'
       ]_vars

\* The only cycle was started by the mount; the component was unmounted
\* while the cycle was in flight, and the cycle has since written the
\* profile, the repositories and the loading flag.
C21_Witness ==
    /\ ~mounted
    /\ mounts = 1
    /\ Len(cycles) = 1
    /\ event = "setRepositories"
    /\ loading = FALSE
    /\ user \in Profiles
    /\ repositories # <<>>
    /\ writers.repositories = 1

\* C22: the loading flag is true until the first fetch cycle has finished,
\* and no step takes it from false back to true.
C22_LoadingMonotone ==
    /\ [](Failed \cup Succeeded = {} => loading)
    /\ [][~loading => ~loading']_vars

\* The first cycle succeeded and cleared the flag; a refresh cycle that the
\* timer or a visibility change started is in flight and the flag is still
\* false.
C22_Witness ==
    /\ ~loading
    /\ Len(cycles) >= 2
    /\ cycles[1].outcome = "ok"
    /\ event \in {"tick", "visibilitychange"}
    /\ cycles[Len(cycles)] = NewCycle

\* C23: when every fetch that is issued settles, a mounted component leads
\* to a state in which the loading flag is false, whatever the responses
\* are and whatever the timer and the page's visibility do meanwhile.
C23_LoadingEventuallyFalse == mounted ~> ~loading

\* The cycle of the mount failed while a cycle that the timer or a
\* visibility change started was in flight; the flag is false.
C23_Witness ==
    /\ ~loading
    /\ mounts = 1
    /\ Len(cycles) >= 2
    /\ cycles[1].outcome = "failed"
    /\ cycles[2].pc # "done"
    /\ event \in FailureEvents
    /\ Succeeded = {}

====
